---- MODULE Spec2Model ----
(***************************************************************************)
(* Model of the BLAKE3 benchmark harness (benchmark.ts): the dynamic       *)
(* loading of the six optional implementations, the timed runner           *)
(* benchmark(), the comparator compareResults(), the driver runBenchmarks() *)
(* with its correctness pass, and the top-level .catch handler.            *)
(***************************************************************************)
EXTENDS Integers, Sequences, FiniteSets, TLC

(* ------------------------------ bounds --------------------------------- *)
MaxElapsed == 1
MaxTick == 1
MaxIterations == 11
MaxResults == 3
DigestLen == 2

(* ------------------------- program constants --------------------------- *)
WarmupLimit == 10
StreamingIterations == 100

NULL == "null"
FN == "fn"

Impls == <<"b3js", "blake3-js", "blake3", "blake3-fast", "blake3-numi2",
           "blake3-optimized", "bk3js">>
LoadOrder == <<"blake3-js", "blake3", "blake3-fast", "blake3-numi2",
               "blake3-optimized", "bk3js">>
StreamOrder == <<"b3js", "blake3-js", "blake3", "blake3-fast">>
Dynamic == {LoadOrder[k] : k \in 1..Len(LoadOrder)}
WithFactory == {"blake3-js", "blake3", "blake3-fast"}

TestCases == <<[name |-> "Small (11 bytes)", iterations |-> 10000],
               [name |-> "Medium (1KB)", iterations |-> 1000],
               [name |-> "Large (100KB)", iterations |-> 100],
               [name |-> "Very Large (1MB)", iterations |-> 10]>>

(* What a dynamic import can deliver: the import rejects, the module       *)
(* resolves without the exports the wrappers use, or it resolves complete. *)
ModuleShapes == {"rejected", "empty", "ok"}

(* --------------------- IEEE-754 values that occur ---------------------- *)
(* Non-negative numbers: an exact rational n/d, +Infinity, or NaN.         *)
RECURSIVE GCD(_, _)
GCD(a, b) == IF b = 0 THEN a ELSE GCD(b, a % b)

Fin(n, d) == LET g == GCD(n, d) IN [k |-> "fin", n |-> n \div g, d |-> d \div g]
PosInf == [k |-> "inf", n |-> 0, d |-> 1]
NaN == [k |-> "nan", n |-> 0, d |-> 1]
Zero == Fin(0, 1)

FDiv(a, b) ==
  IF a.k = "nan" \/ b.k = "nan" THEN NaN
  ELSE IF a.k = "inf" THEN (IF b.k = "inf" THEN NaN ELSE PosInf)
  ELSE IF b.k = "inf" THEN Zero
  ELSE IF b.n = 0 THEN (IF a.n = 0 THEN NaN ELSE PosInf)
  ELSE Fin(a.n * b.d, a.d * b.n)

FMul(a, b) ==
  IF a.k = "nan" \/ b.k = "nan" THEN NaN
  ELSE IF a.k = "inf" THEN (IF b.k = "fin" /\ b.n = 0 THEN NaN ELSE PosInf)
  ELSE IF b.k = "inf" THEN (IF a.n = 0 THEN NaN ELSE PosInf)
  ELSE Fin(a.n * b.n, a.d * b.d)

FGt(a, b) ==
  IF a.k = "nan" \/ b.k = "nan" THEN FALSE
  ELSE IF a.k = "inf" THEN b.k # "inf"
  ELSE IF b.k = "inf" THEN FALSE
  ELSE a.n * b.d > b.n * a.d

RECURSIVE Pow10(_)
Pow10(e) == IF e = 0 THEN 1 ELSE 10 * Pow10(e - 1)

(* Number.prototype.toFixed: the value rounded half-up to `digits`         *)
(* decimals (kept as the scaled integer), or the words Infinity and NaN.   *)
toFixed(x, digits) ==
  IF x.k = "nan" THEN [k |-> "NaN", v |-> 0]
  ELSE IF x.k = "inf" THEN [k |-> "Infinity", v |-> 0]
  ELSE [k |-> "num", v |-> (2 * x.n * Pow10(digits) + x.d) \div (2 * x.d)]

NA == [k |-> "N/A", v |-> 0]

Min(a, b) == IF a < b THEN a ELSE b

(* ------------------------------ benchmark ------------------------------ *)
WarmupCount_fixed(iterations) == WarmupLimit

WarmupCount(iterations) == Min(WarmupLimit, iterations)

(* The record benchmark() returns for timer readings start and end.        *)
BenchmarkResult(name, iterations, start, end) ==
  LET total == Fin(end - start, 1)
      avg == FDiv(total, Fin(iterations, 1))
      throughput == FMul(FDiv(Fin(iterations, 1), total), Fin(1000, 1))
  IN [name |-> name, total |-> total, avg |-> avg,
      throughput |-> throughput, ops |-> iterations]

(* ---------------------------- compareResults --------------------------- *)
(* results.reduce((a, b) => a.throughput > b.throughput ? a : b) with      *)
(* objects identified by their index in the array.                         *)
RECURSIVE Reduce(_, _, _)
Reduce(results, acc, i) ==
  IF i > Len(results) THEN acc
  ELSE Reduce(results,
              IF FGt(results[acc].throughput, results[i].throughput)
              THEN acc ELSE i,
              i + 1)

RECURSIVE ReduceKeepFirst(_, _, _)
ReduceKeepFirst(results, acc, i) ==
  IF i > Len(results) THEN acc
  ELSE ReduceKeepFirst(results,
                       IF FGt(results[i].throughput, results[acc].throughput)
                       THEN i ELSE acc,
                       i + 1)

Fastest_keepFirst(results) == ReduceKeepFirst(results, 1, 2)

Fastest(results) == Reduce(results, 1, 2)

formatResult(result) ==
  [name |-> result.name, total |-> toFixed(result.total, 2),
   avg |-> toFixed(result.avg, 4), ops |-> toFixed(result.throughput, 0)]

ReportLine(results, fastest, i) ==
  LET result == results[i]
      best == results[fastest]
  IN [text |-> formatResult(result),
      speedup |-> IF FGt(result.throughput, Zero)
                  THEN toFixed(FDiv(best.throughput, result.throughput), 2)
                  ELSE NA,
      marker |-> (i = fastest),
      relative |-> IF FGt(result.throughput, Zero)
                   THEN toFixed(FMul(FDiv(result.throughput, best.throughput),
                                     Fin(100, 1)), 1)
                   ELSE NA]

(* The table compareResults prints; nothing for an empty list.             *)
compareResults(results) ==
  IF Len(results) = 0 THEN [fastest |-> 0, lines |-> <<>>]
  ELSE LET fastest == Fastest(results)
       IN [fastest |-> fastest,
           lines |-> [i \in 1..Len(results) |-> ReportLine(results, fastest, i)]]

(* ------------------------- digest hex encoding ------------------------- *)
ByteSet == {1, 17}
HexDigits == <<"0", "1", "2", "3", "4", "5", "6", "7",
               "8", "9", "a", "b", "c", "d", "e", "f">>

(* Number.prototype.toString(16) of a byte: no leading zeros. *)
RECURSIVE toString16(_)
toString16(b) ==
  IF b < 16 THEN <<HexDigits[b + 1]>>
  ELSE toString16(b \div 16) \o <<HexDigits[(b % 16) + 1]>>

padStart_none(s, targetLength, fill) == s

RECURSIVE padStart(_, _, _)
padStart(s, targetLength, fill) ==
  IF Len(s) >= targetLength THEN s
  ELSE padStart(<<fill>> \o s, targetLength, fill)

(* Array.from(bytes).map(b => b.toString(16).padStart(2, '0')).join('') *)
RECURSIVE DigestHex(_)
DigestHex(bytes) ==
  IF bytes = <<>> THEN <<>>
  ELSE padStart(toString16(Head(bytes)), 2, "0") \o DigestHex(Tail(bytes))

Digests == [1..DigestLen -> ByteSet]

(* ------------------------------- state ---------------------------------- *)
VARIABLES
  phase,            \* position of runBenchmarks and of the top-level handler
  loadIdx,          \* next try block of loadImplementations
  module,           \* what each dynamic import delivered
  hashSlot,         \* blake3jsHash, blake3Hash, ... bk3jsHash
  hasherSlot,       \* blake3jsCreateHasher, blake3CreateHasher, blake3FastCreateHasher
  notice,           \* the load notice printed for each implementation
  loadAttempts,     \* number of import attempts per implementation
  tc,               \* index of the current test case
  step,             \* position inside the current test case / scenario / pass
  results,          \* results of the current test case
  streamingResults, \* results of the streaming scenario
  tableRows,        \* number of table rows printed so far by compareResults
  trace,            \* calls made so far: loads, benchmark() calls, verifications
  invoked,          \* implementations whose wrapper or factory was ever called
  refDigest,        \* bytes b3jsHash returned in the correctness pass
  lastDigest,       \* bytes returned by the implementation verified last
  log,              \* Match lines printed by the correctness pass
  thrownBy,         \* implementation whose call threw the escaping error
  errorLogged,      \* console.error was called by the catch handler
  exitCode,         \* exit status of the process
  bPc, bIter, bI, clock, start, end, fnCalls, callsAtStart, callsAtStop, bResult,
  cPc, cResults, cTable

runVars == <<phase, loadIdx, module, hashSlot, hasherSlot, notice, loadAttempts,
             tc, step, results, streamingResults, tableRows, trace, invoked,
             refDigest, lastDigest, log, thrownBy, errorLogged, exitCode>>
benchVars == <<bPc, bIter, bI, clock, start, end, fnCalls, callsAtStart,
               callsAtStop, bResult>>
cmpVars == <<cPc, cResults, cTable>>
vars == <<runVars, benchVars, cmpVars>>

NoResult == [name |-> "", total |-> Zero, avg |-> Zero, throughput |-> Zero, ops |-> 0]
NoTable == [fastest |-> 0, lines |-> <<>>]

RunIdle ==
  /\ phase = "idle" /\ loadIdx = 0
  /\ module = [i \in Dynamic |-> "none"]
  /\ hashSlot = [i \in Dynamic |-> NULL]
  /\ hasherSlot = [i \in WithFactory |-> NULL]
  /\ notice = [i \in Dynamic |-> "none"]
  /\ loadAttempts = [i \in Dynamic |-> 0]
  /\ tc = 0 /\ step = 0
  /\ results = <<>> /\ streamingResults = <<>> /\ tableRows = 0
  /\ trace = <<>> /\ invoked = {}
  /\ refDigest = <<>> /\ lastDigest = <<>> /\ log = <<>>
  /\ thrownBy = "none" /\ errorLogged = FALSE /\ exitCode = -1

BenchIdle ==
  /\ bPc = "idle" /\ bIter = 0 /\ bI = 0 /\ clock = 0
  /\ start = -1 /\ end = -1
  /\ fnCalls = 0 /\ callsAtStart = -1 /\ callsAtStop = -1
  /\ bResult = NoResult

CmpIdle == cPc = "idle" /\ cResults = <<>> /\ cTable = NoTable

(* ------------------------- loadImplementations ------------------------- *)
Event(op, case, impl) == [op |-> op, case |-> case, impl |-> impl]

(* The one-shot slot after the try block of implementation i: unchanged    *)
(* when the import rejects; bk3js assigns only if a hash export is found,  *)
(* every other block assigns its wrapper whatever the module exports.      *)
HashSlotAfter_assignedFirst(i, shape) == FN

HashSlotAfter(i, shape) ==
  IF shape = "rejected" THEN NULL
  ELSE IF i = "bk3js" /\ shape = "empty" THEN NULL
  ELSE FN

HasherSlotAfter(i, shape) == IF shape = "rejected" THEN NULL ELSE FN

NoticeAfter(i, shape) ==
  IF shape = "rejected" THEN "failed"
  ELSE IF i = "bk3js" /\ shape = "empty" THEN "failed"
  ELSE "loaded"

(* One try/catch block: await import(...), assign the slots, print.        *)
LoadAttempt(i) ==
  /\ phase = "loading"
  /\ loadIdx <= Len(LoadOrder)
  /\ LoadOrder[loadIdx] = i
  /\ \E shape \in ModuleShapes :
       /\ module' = [module EXCEPT ![i] = shape]
       /\ hashSlot' = [hashSlot EXCEPT ![i] = HashSlotAfter(i, shape)]
       /\ hasherSlot' = IF i \in WithFactory
                        THEN [hasherSlot EXCEPT ![i] = HasherSlotAfter(i, shape)]
                        ELSE hasherSlot
       /\ notice' = [notice EXCEPT ![i] = NoticeAfter(i, shape)]
  /\ loadAttempts' = [loadAttempts EXCEPT ![i] = @ + 1]
  /\ trace' = Append(trace, Event("load", 0, i))
  /\ loadIdx' = loadIdx + 1
  /\ UNCHANGED <<phase, tc, step, results, streamingResults, tableRows, invoked,
                 refDigest, lastDigest, log, thrownBy, errorLogged, exitCode>>
  /\ UNCHANGED <<benchVars, cmpVars>>

(* loadImplementations() resolves; runBenchmarks enters the first test case. *)
LoadDone ==
  /\ phase = "loading"
  /\ loadIdx > Len(LoadOrder)
  /\ phase' = "bench"
  /\ tc' = 1
  /\ step' = 1
  /\ results' = <<>>
  /\ UNCHANGED <<loadIdx, module, hashSlot, hasherSlot, notice, loadAttempts,
                 streamingResults, tableRows, trace, invoked, refDigest,
                 lastDigest, log, thrownBy, errorLogged, exitCode>>
  /\ UNCHANGED <<benchVars, cmpVars>>

(* ----------------------------- runBenchmarks --------------------------- *)
OneShotName(i) ==
  IF i = "blake3" THEN "blake3 (Rust/WASM)"
  ELSE IF i = "blake3-fast" THEN "blake3-fast (WASM SIMD)"
  ELSE i

StreamName(i) ==
  IF i = "b3js" THEN "b3js (streaming)"
  ELSE IF i = "blake3-js" THEN "blake3-js (streaming)"
  ELSE IF i = "blake3" THEN "blake3 (streaming)"
  ELSE "blake3-fast (streaming)"

(* The guards `if (blake3jsHash)` ... and `if (blake3jsCreateHasher)` ...;  *)
(* b3js is imported statically and runs unguarded.                          *)
HasHash_unguarded(i) == TRUE

HasHash(i) == IF i = "b3js" THEN TRUE ELSE hashSlot[i] # NULL
HasHasher(i) == IF i = "b3js" THEN TRUE ELSE hasherSlot[i] # NULL

(* How a call into an implementation can end: a wrapper over a module      *)
(* without the export throws a TypeError; any other call returns or throws. *)
Outcomes(i) ==
  IF i \in Dynamic /\ module[i] = "empty" THEN {"throw"} ELSE {"return", "throw"}

Escape(i) ==
  /\ phase' = "failed"
  /\ thrownBy' = i

(* results.push(benchmark(name, () => hash(data), testCase.iterations)) *)
BenchOneShot(i) ==
  /\ phase = "bench"
  /\ step <= Len(Impls)
  /\ Impls[step] = i
  /\ HasHash(i)
  /\ trace' = Append(trace, Event("bench", tc, i))
  /\ invoked' = invoked \cup {i}
  /\ \E outcome \in Outcomes(i), elapsed \in 0..MaxElapsed :
       IF outcome = "throw"
       THEN /\ Escape(i)
            /\ UNCHANGED <<results, step>>
       ELSE /\ results' = Append(results,
                 BenchmarkResult(OneShotName(i), TestCases[tc].iterations, 0, elapsed))
            /\ step' = step + 1
            /\ UNCHANGED <<phase, thrownBy>>
  /\ UNCHANGED <<loadIdx, module, hashSlot, hasherSlot, notice, loadAttempts, tc,
                 streamingResults, tableRows, refDigest, lastDigest, log,
                 errorLogged, exitCode>>
  /\ UNCHANGED <<benchVars, cmpVars>>

(* The guard of an implementation whose slot is null is false. *)
SkipOneShot(i) ==
  /\ phase = "bench"
  /\ step <= Len(Impls)
  /\ Impls[step] = i
  /\ ~HasHash(i)
  /\ step' = step + 1
  /\ UNCHANGED <<phase, loadIdx, module, hashSlot, hasherSlot, notice,
                 loadAttempts, tc, results, streamingResults, tableRows, trace,
                 invoked, refDigest, lastDigest, log, thrownBy, errorLogged,
                 exitCode>>
  /\ UNCHANGED <<benchVars, cmpVars>>

CompareCase_skipStreaming ==
  /\ phase = "bench"
  /\ step > Len(Impls)
  /\ tableRows' = tableRows + Len(compareResults(results).lines)
  /\ results' = <<>>
  /\ step' = 1
  /\ IF tc < Len(TestCases)
     THEN tc' = tc + 1 /\ phase' = phase
     ELSE tc' = tc /\ phase' = "verify"
  /\ UNCHANGED <<loadIdx, module, hashSlot, hasherSlot, notice, loadAttempts,
                 streamingResults, trace, invoked, refDigest, lastDigest, log,
                 thrownBy, errorLogged, exitCode>>
  /\ UNCHANGED <<benchVars, cmpVars>>

(* compareResults(results) at the end of a test case, then the next test   *)
(* case with a fresh list, or the streaming scenario after the last one.   *)
CompareCase ==
  /\ phase = "bench"
  /\ step > Len(Impls)
  /\ tableRows' = tableRows + Len(compareResults(results).lines)
  /\ results' = <<>>
  /\ step' = 1
  /\ IF tc < Len(TestCases)
     THEN tc' = tc + 1 /\ phase' = phase
     ELSE tc' = tc /\ phase' = "streaming"
  /\ UNCHANGED <<loadIdx, module, hashSlot, hasherSlot, notice, loadAttempts,
                 streamingResults, trace, invoked, refDigest, lastDigest, log,
                 thrownBy, errorLogged, exitCode>>
  /\ UNCHANGED <<benchVars, cmpVars>>

(* streamingResults.push(benchmark(name, () => { createHasher, 100 updates, *)
(* finalize/digest }, 100))                                                 *)
BenchStreaming(i) ==
  /\ phase = "streaming"
  /\ step <= Len(StreamOrder)
  /\ StreamOrder[step] = i
  /\ HasHasher(i)
  /\ trace' = Append(trace, Event("stream", 0, i))
  /\ invoked' = invoked \cup {i}
  /\ \E outcome \in Outcomes(i), elapsed \in 0..MaxElapsed :
       IF outcome = "throw"
       THEN /\ Escape(i)
            /\ UNCHANGED <<streamingResults, step>>
       ELSE /\ streamingResults' = Append(streamingResults,
                 BenchmarkResult(StreamName(i), StreamingIterations, 0, elapsed))
            /\ step' = step + 1
            /\ UNCHANGED <<phase, thrownBy>>
  /\ UNCHANGED <<loadIdx, module, hashSlot, hasherSlot, notice, loadAttempts, tc,
                 results, tableRows, refDigest, lastDigest, log, errorLogged,
                 exitCode>>
  /\ UNCHANGED <<benchVars, cmpVars>>

SkipStreaming(i) ==
  /\ phase = "streaming"
  /\ step <= Len(StreamOrder)
  /\ StreamOrder[step] = i
  /\ ~HasHasher(i)
  /\ step' = step + 1
  /\ UNCHANGED <<phase, loadIdx, module, hashSlot, hasherSlot, notice,
                 loadAttempts, tc, results, streamingResults, tableRows, trace,
                 invoked, refDigest, lastDigest, log, thrownBy, errorLogged,
                 exitCode>>
  /\ UNCHANGED <<benchVars, cmpVars>>

(* compareResults(streamingResults); the list is not used afterwards.      *)
CompareStreaming ==
  /\ phase = "streaming"
  /\ step > Len(StreamOrder)
  /\ tableRows' = tableRows + Len(compareResults(streamingResults).lines)
  /\ streamingResults' = <<>>
  /\ phase' = "verify"
  /\ step' = 1
  /\ UNCHANGED <<loadIdx, module, hashSlot, hasherSlot, notice, loadAttempts, tc,
                 results, trace, invoked, refDigest, lastDigest, log, thrownBy,
                 errorLogged, exitCode>>
  /\ UNCHANGED <<benchVars, cmpVars>>

(* ------------------------ correctness verification --------------------- *)
(* b3jsResult === implResult on the hex strings. *)
Match(reference, digest) == DigestHex(reference) = DigestHex(digest)

(* const b3jsResult = Array.from(b3jsHash(testInput))...join('') *)
VerifyReference ==
  /\ phase = "verify"
  /\ step = 1
  /\ trace' = Append(trace, Event("reference", 0, "b3js"))
  /\ invoked' = invoked \cup {"b3js"}
  /\ \E outcome \in Outcomes("b3js"), digest \in Digests :
       IF outcome = "throw"
       THEN /\ Escape("b3js")
            /\ UNCHANGED <<refDigest, step>>
       ELSE /\ refDigest' = digest
            /\ step' = step + 1
            /\ UNCHANGED <<phase, thrownBy>>
  /\ UNCHANGED <<loadIdx, module, hashSlot, hasherSlot, notice, loadAttempts, tc,
                 results, streamingResults, tableRows, lastDigest, log,
                 errorLogged, exitCode>>
  /\ UNCHANGED <<benchVars, cmpVars>>

(* if (slot) { hash testInput, print the digest, print the Match line } *)
VerifyImpl(i) ==
  /\ phase = "verify"
  /\ step > 1
  /\ step <= Len(Impls)
  /\ Impls[step] = i
  /\ HasHash(i)
  /\ trace' = Append(trace, Event("verify", 0, i))
  /\ invoked' = invoked \cup {i}
  /\ \E outcome \in Outcomes(i), digest \in Digests :
       IF outcome = "throw"
       THEN /\ Escape(i)
            /\ UNCHANGED <<lastDigest, log, step>>
       ELSE /\ lastDigest' = digest
            /\ log' = Append(log, [impl |-> i, match |-> Match(refDigest, digest)])
            /\ step' = step + 1
            /\ UNCHANGED <<phase, thrownBy>>
  /\ UNCHANGED <<loadIdx, module, hashSlot, hasherSlot, notice, loadAttempts, tc,
                 results, streamingResults, tableRows, refDigest, errorLogged,
                 exitCode>>
  /\ UNCHANGED <<benchVars, cmpVars>>

SkipVerify(i) ==
  /\ phase = "verify"
  /\ step > 1
  /\ step <= Len(Impls)
  /\ Impls[step] = i
  /\ ~HasHash(i)
  /\ step' = step + 1
  /\ UNCHANGED <<phase, loadIdx, module, hashSlot, hasherSlot, notice,
                 loadAttempts, tc, results, streamingResults, tableRows, trace,
                 invoked, refDigest, lastDigest, log, thrownBy, errorLogged,
                 exitCode>>
  /\ UNCHANGED <<benchVars, cmpVars>>

(* 'Benchmark Complete!': runBenchmarks() resolves. *)
Finish ==
  /\ phase = "verify"
  /\ step > Len(Impls)
  /\ phase' = "done"
  /\ UNCHANGED <<loadIdx, module, hashSlot, hasherSlot, notice, loadAttempts, tc,
                 step, results, streamingResults, tableRows, trace, invoked,
                 refDigest, lastDigest, log, thrownBy, errorLogged, exitCode>>
  /\ UNCHANGED <<benchVars, cmpVars>>

(* ------------------- runBenchmarks().catch(console.error) -------------- *)
(* The promise resolved: nothing is left to run and the process ends with  *)
(* the default exit status.                                                *)
ExitResolved ==
  /\ phase = "done"
  /\ phase' = "exited"
  /\ exitCode' = 0
  /\ UNCHANGED <<loadIdx, module, hashSlot, hasherSlot, notice, loadAttempts, tc,
                 step, results, streamingResults, tableRows, trace, invoked,
                 refDigest, lastDigest, log, thrownBy, errorLogged>>
  /\ UNCHANGED <<benchVars, cmpVars>>

(* The promise rejected: the handler console.error prints the error and    *)
(* returns, which settles the rejection; no exit status is set, so the     *)
(* process ends with the default one.                                      *)
CatchError ==
  /\ phase = "failed"
  /\ errorLogged' = TRUE
  /\ phase' = "exited"
  /\ exitCode' = 0
  /\ UNCHANGED <<loadIdx, module, hashSlot, hasherSlot, notice, loadAttempts, tc,
                 step, results, streamingResults, tableRows, trace, invoked,
                 refDigest, lastDigest, log, thrownBy>>
  /\ UNCHANGED <<benchVars, cmpVars>>

InitRun ==
  /\ phase = "loading" /\ loadIdx = 1
  /\ module = [i \in Dynamic |-> "none"]
  /\ hashSlot = [i \in Dynamic |-> NULL]
  /\ hasherSlot = [i \in WithFactory |-> NULL]
  /\ notice = [i \in Dynamic |-> "none"]
  /\ loadAttempts = [i \in Dynamic |-> 0]
  /\ tc = 0 /\ step = 0
  /\ results = <<>> /\ streamingResults = <<>> /\ tableRows = 0
  /\ trace = <<>> /\ invoked = {}
  /\ refDigest = <<>> /\ lastDigest = <<>> /\ log = <<>>
  /\ thrownBy = "none" /\ errorLogged = FALSE /\ exitCode = -1

Init == InitRun /\ BenchIdle /\ CmpIdle

Next ==
  \/ \E i \in Dynamic : LoadAttempt(i)
  \/ LoadDone
  \/ \E i \in DOMAIN Impls : BenchOneShot(Impls[i])
  \/ \E i \in DOMAIN Impls : SkipOneShot(Impls[i])
  \/ CompareCase
  \/ \E i \in DOMAIN StreamOrder : BenchStreaming(StreamOrder[i])
  \/ \E i \in DOMAIN StreamOrder : SkipStreaming(StreamOrder[i])
  \/ CompareStreaming
  \/ VerifyReference
  \/ \E i \in DOMAIN Impls : VerifyImpl(Impls[i])
  \/ \E i \in DOMAIN Impls : SkipVerify(Impls[i])
  \/ Finish
  \/ ExitResolved
  \/ CatchError

Spec == Init /\ [][Next]_vars

(* --------------------- benchmark(), one call at a time ----------------- *)
(* fn() takes between 0 and MaxTick clock units; performance.now() reads   *)
(* the clock.                                                              *)
InitBench ==
  /\ RunIdle /\ CmpIdle
  /\ bPc = "warmup"
  /\ bIter \in 1..MaxIterations
  /\ bI = 0
  /\ clock \in 0..MaxTick
  /\ start = -1 /\ end = -1
  /\ fnCalls = 0 /\ callsAtStart = -1 /\ callsAtStop = -1
  /\ bResult = NoResult

(* for (let i = 0; i < Math.min(10, iterations); i++) fn(); *)
WarmupCall ==
  /\ bPc = "warmup"
  /\ bI < WarmupCount(bIter)
  /\ fnCalls' = fnCalls + 1
  /\ bI' = bI + 1
  /\ \E d \in 0..MaxTick : clock' = clock + d
  /\ UNCHANGED <<bPc, bIter, start, end, callsAtStart, callsAtStop, bResult>>
  /\ UNCHANGED <<runVars, cmpVars>>

(* const start = performance.now(); *)
StartTimer ==
  /\ bPc = "warmup"
  /\ ~(bI < WarmupCount(bIter))
  /\ start' = clock
  /\ callsAtStart' = fnCalls
  /\ bI' = 0
  /\ bPc' = "timed"
  /\ UNCHANGED <<bIter, clock, end, fnCalls, callsAtStop, bResult>>
  /\ UNCHANGED <<runVars, cmpVars>>

(* for (let i = 0; i < iterations; i++) fn(); *)
TimedCall ==
  /\ bPc = "timed"
  /\ bI < bIter
  /\ fnCalls' = fnCalls + 1
  /\ bI' = bI + 1
  /\ \E d \in 0..MaxTick : clock' = clock + d
  /\ UNCHANGED <<bPc, bIter, start, end, callsAtStart, callsAtStop, bResult>>
  /\ UNCHANGED <<runVars, cmpVars>>

(* const end = performance.now(); ...; return { name, total, avg, ... } *)
StopTimer ==
  /\ bPc = "timed"
  /\ ~(bI < bIter)
  /\ end' = clock
  /\ callsAtStop' = fnCalls
  /\ bResult' = BenchmarkResult("fn", bIter, start, clock)
  /\ bPc' = "done"
  /\ UNCHANGED <<bIter, bI, clock, start, fnCalls, callsAtStart>>
  /\ UNCHANGED <<runVars, cmpVars>>

(* fn() throws: the error leaves benchmark() and no record is returned. *)
FnThrows ==
  /\ bPc \in {"warmup", "timed"}
  /\ bI < (IF bPc = "warmup" THEN WarmupCount(bIter) ELSE bIter)
  /\ fnCalls' = fnCalls + 1
  /\ bPc' = "thrown"
  /\ UNCHANGED <<bIter, bI, clock, start, end, callsAtStart, callsAtStop, bResult>>
  /\ UNCHANGED <<runVars, cmpVars>>

NextBench ==
  \/ WarmupCall
  \/ StartTimer
  \/ TimedCall
  \/ StopTimer
  \/ FnThrows

SpecBench == InitBench /\ [][NextBench]_vars

(* ----------------------- compareResults, one call ---------------------- *)
CmpIterations == {TestCases[3].iterations, TestCases[4].iterations}

InitCompare ==
  /\ RunIdle /\ BenchIdle
  /\ cPc = "call"
  /\ cTable = NoTable
  /\ \E n \in 0..MaxResults :
       \E input \in [1..n -> CmpIterations \X (0..MaxElapsed)] :
         cResults = [i \in 1..n |->
                       BenchmarkResult(Impls[i], input[i][1], 0, input[i][2])]

(* if (results.length === 0) return; *)
CompareEmpty ==
  /\ cPc = "call"
  /\ Len(cResults) = 0
  /\ cPc' = "returned"
  /\ UNCHANGED <<cResults, cTable>>
  /\ UNCHANGED <<runVars, benchVars>>

CompareNonEmpty ==
  /\ cPc = "call"
  /\ Len(cResults) # 0
  /\ cTable' = compareResults(cResults)
  /\ cPc' = "done"
  /\ UNCHANGED cResults
  /\ UNCHANGED <<runVars, benchVars>>

NextCompare ==
  \/ CompareEmpty
  \/ CompareNonEmpty

SpecCompare == InitCompare /\ [][NextCompare]_vars

(* ============================ properties =============================== *)
LoadFailed(i) == notice[i] = "failed"
NamesOf(i) == {OneShotName(i)} \cup (IF i \in WithFactory THEN {StreamName(i)} ELSE {})
Settled == phase # "loading"

(* C1: an implementation whose load attempt failed is never invoked, has   *)
(* no entry in a one-shot or streaming result list, is never passed to the *)
(* timed runner and gets no digest or Match line in the correctness pass.  *)
C1_UnavailabilityPropagation ==
  \A i \in Dynamic :
    LoadFailed(i) =>
      /\ i \notin invoked
      /\ \A k \in DOMAIN trace : trace[k].impl = i => trace[k].op = "load"
      /\ \A k \in DOMAIN results : results[k].name \notin NamesOf(i)
      /\ \A k \in DOMAIN streamingResults : streamingResults[k].name \notin NamesOf(i)
      /\ \A k \in DOMAIN log : log[k].impl # i

C1_Witness ==
  /\ phase = "done"
  /\ LoadFailed("blake3-js")
  /\ LoadFailed("bk3js")
  /\ "blake3" \in invoked
  /\ Len(log) > 0

(* C2: every load attempt is made exactly once whatever the earlier ones   *)
(* did, a rejected import leaves the implementation's slots null, an       *)
(* attempt writes no slot of another implementation, and no error leaves   *)
(* loadImplementations.                                                    *)
C2_SlotsOfOthers ==
  phase = "loading" /\ loadIdx <= Len(LoadOrder) =>
    /\ \A j \in Dynamic \ {LoadOrder[loadIdx]} : hashSlot'[j] = hashSlot[j]
    /\ \A j \in WithFactory \ {LoadOrder[loadIdx]} : hasherSlot'[j] = hasherSlot[j]

C2_Attempts ==
  /\ \A k \in DOMAIN LoadOrder :
       loadAttempts[LoadOrder[k]] = (IF phase = "loading" /\ k >= loadIdx THEN 0 ELSE 1)
  /\ \A i \in Dynamic :
       module[i] = "rejected" =>
         /\ hashSlot[i] = NULL
         /\ i \in WithFactory => hasherSlot[i] = NULL
  /\ phase = "loading" => thrownBy = "none"
  /\ phase = "failed" => loadIdx > Len(LoadOrder)

C2_LoadIsolation == [](C2_Attempts) /\ [][C2_SlotsOfOthers]_vars

C2_Witness ==
  /\ Settled
  /\ module["blake3-js"] = "rejected"
  /\ module["blake3-numi2"] = "rejected"
  /\ hashSlot["blake3"] = FN
  /\ hashSlot["bk3js"] = FN

(* C3: nothing is benchmarked before the six load attempts have settled,   *)
(* the slots are not written after loading, the calls of the timed runner  *)
(* come in the order small, medium, large, very large, streaming with one  *)
(* call per available implementation, and the correctness pass runs once,  *)
(* after all benchmarks.                                                   *)
Position(seq, x) == CHOOSE k \in DOMAIN seq : seq[k] = x

Rank(e) ==
  IF e.op = "load" THEN Position(LoadOrder, e.impl)
  ELSE IF e.op = "bench" THEN 100 * e.case + Position(Impls, e.impl)
  ELSE IF e.op = "stream" THEN 500 + Position(StreamOrder, e.impl)
  ELSE IF e.op = "reference" THEN 600
  ELSE 600 + Position(Impls, e.impl)

Times(e) == Cardinality({k \in DOMAIN trace : trace[k] = e})

C3_Order ==
  /\ \A p \in 1..(Len(trace) - 1) : Rank(trace[p]) < Rank(trace[p + 1])
  /\ \A q \in DOMAIN trace : trace[q].op # "load" => q > Len(LoadOrder)
  /\ Len(trace) > Len(LoadOrder) =>
       \A k \in DOMAIN LoadOrder : trace[k] = Event("load", 0, LoadOrder[k])
  /\ phase = "done" =>
       /\ \A c \in DOMAIN TestCases, k \in DOMAIN Impls :
            Times(Event("bench", c, Impls[k])) =
              (IF k = 1 THEN 1 ELSE IF hashSlot[Impls[k]] = FN THEN 1 ELSE 0)
       /\ \A k \in DOMAIN StreamOrder :
            Times(Event("stream", 0, StreamOrder[k])) =
              (IF k = 1 THEN 1 ELSE IF hasherSlot[StreamOrder[k]] = FN THEN 1 ELSE 0)
       /\ Times(Event("reference", 0, "b3js")) = 1

C3_SlotsFrozen == Settled => UNCHANGED <<hashSlot, hasherSlot>>

C3_PhaseOrdering == [](C3_Order) /\ [][C3_SlotsFrozen]_vars

C3_Witness ==
  /\ phase = "done"
  /\ hashSlot["blake3"] = FN
  /\ hasherSlot["blake3-fast"] = FN
  /\ hashSlot["blake3-numi2"] = NULL
  /\ Len(log) > 1

(* C4: a record returned by benchmark() for a zero or negative elapsed     *)
(* time has throughput zero, and no record has an infinite, negative or    *)
(* undefined throughput.                                                   *)
C4_TimingAnomaly ==
  bPc = "done" =>
    /\ bResult.throughput.k = "fin"
    /\ bResult.throughput.n >= 0
    /\ end - start <= 0 => bResult.throughput = Zero

(* C5 as stated: the entry marked fastest has the maximum throughput and   *)
(* is the first of the entries that have it.                               *)
C5_MarksMaximum ==
  /\ cTable.fastest \in DOMAIN cResults
  /\ \A j \in DOMAIN cResults :
       ~FGt(cResults[j].throughput, cResults[cTable.fastest].throughput)
  /\ \A j \in DOMAIN cResults : cTable.lines[j].marker <=> (j = cTable.fastest)

C5_FirstOfTies ==
  cPc = "done" =>
    /\ C5_MarksMaximum
    /\ \A j \in DOMAIN cResults :
         j < cTable.fastest =>
           FGt(cResults[cTable.fastest].throughput, cResults[j].throughput)

(* C5 amended: the entry marked fastest has the maximum throughput and is  *)
(* the last of the entries that have it.                                   *)
C5_LastOfTies ==
  cPc = "done" =>
    /\ C5_MarksMaximum
    /\ \A j \in DOMAIN cResults :
         j > cTable.fastest =>
           FGt(cResults[cTable.fastest].throughput, cResults[j].throughput)

C5_Witness ==
  /\ cPc = "done"
  /\ Len(cResults) = 3
  /\ cTable.fastest = 2
  /\ ~FGt(cResults[2].throughput, cResults[1].throughput)
  /\ cResults[2].throughput.k = "fin"

(* C6: when an error escapes runBenchmarks it is logged and the exit       *)
(* status is non-zero; otherwise the exit status is zero.                  *)
C6_ExitStatus ==
  phase = "exited" =>
    IF thrownBy # "none"
    THEN errorLogged /\ exitCode # 0
    ELSE exitCode = 0

(* C7: exactly one line is marked fastest, it shows 100.0% and 1.00, and   *)
(* every other line shows at most 100.0% and at least 1.00, one line per   *)
(* entry in input order.                                                   *)
AtMost100(relative) == relative.k = "num" /\ relative.v <= 1000
AtLeast1(speedup) == speedup.k = "Infinity" \/ (speedup.k = "num" /\ speedup.v >= 100)

C7_ComparatorCorrectness ==
  cPc = "done" =>
    /\ Len(cTable.lines) = Len(cResults)
    /\ Cardinality({j \in DOMAIN cTable.lines : cTable.lines[j].marker}) = 1
    /\ \A j \in DOMAIN cTable.lines :
         /\ cTable.lines[j].text.name = cResults[j].name
         /\ IF cTable.lines[j].marker
            THEN /\ cTable.lines[j].relative = [k |-> "num", v |-> 1000]
                 /\ cTable.lines[j].speedup = [k |-> "num", v |-> 100]
            ELSE /\ AtMost100(cTable.lines[j].relative)
                 /\ AtLeast1(cTable.lines[j].speedup)

(* C8: a completed call benchmark(name, fn, N) has invoked fn min(10, N)   *)
(* times before the timer was started and N times between start and stop, *)
(* and returns ops = N, total = end - start, avg = total / N and, for      *)
(* total > 0, throughput = N / total * 1000.                               *)
C8_ExecutionCount ==
  /\ bPc = "warmup" => start = -1 /\ fnCalls <= (IF bIter < 10 THEN bIter ELSE 10)
  /\ bPc \in {"timed", "done"} =>
       /\ callsAtStart = (IF bIter < 10 THEN bIter ELSE 10)
       /\ fnCalls - callsAtStart <= bIter
  /\ bPc = "done" =>
       /\ fnCalls = (IF bIter < 10 THEN bIter ELSE 10) + bIter
       /\ callsAtStop - callsAtStart = bIter
       /\ bResult.ops = bIter
       /\ bResult.total.k = "fin"
       /\ bResult.total.n = (end - start) * bResult.total.d
       /\ bResult.avg.k = "fin"
       /\ bResult.avg.n * bIter = (end - start) * bResult.avg.d
       /\ end - start > 0 =>
            /\ bResult.throughput.k = "fin"
            /\ bResult.throughput.n * (end - start) = bIter * 1000 * bResult.throughput.d

C8_Witness ==
  /\ bPc = "done"
  /\ bIter > 10
  /\ end - start > 0
  /\ start > 0

(* C9: an implementation whose import rejected or whose module lacks the   *)
(* hash export is marked unavailable with a failure notice and no error    *)
(* caused by it escapes runBenchmarks.                                     *)
C9_UnusableModule ==
  \A i \in Dynamic :
    loadAttempts[i] = 1 /\ module[i] \in {"rejected", "empty"} =>
      /\ hashSlot[i] = NULL
      /\ notice[i] = "failed"
      /\ thrownBy # i

(* C10: the reference digest is computed once, every implementation with a *)
(* one-shot hash is hashed once and its Match line says whether its digest *)
(* equals the reference digest, and a mismatch does not keep the later     *)
(* implementations from being verified.                                    *)
C10_VerificationCompleteness ==
  /\ Times(Event("reference", 0, "b3js")) <= 1
  /\ \A k \in DOMAIN log : Times(Event("verify", 0, log[k].impl)) = 1
  /\ Len(log) > 0 => (log[Len(log)].match <=> (lastDigest = refDigest))
  /\ phase = "done" =>
       /\ Times(Event("reference", 0, "b3js")) = 1
       /\ \A i \in Dynamic :
            Cardinality({k \in DOMAIN log : log[k].impl = i}) =
              (IF hashSlot[i] = FN THEN 1 ELSE 0)

C10_Witness ==
  /\ phase = "done"
  /\ Len(log) = 6
  /\ ~log[1].match
  /\ ~log[3].match
  /\ log[6].match

====
